---- MODULE Spec2Model ----
(***************************************************************************)
(* Model of the Ceph OSD manifest builder and of the volume claim          *)
(* allocator of rook (pkg/operator/ceph/cluster/osd).                      *)
(*                                                                         *)
(*   Spec      two reconciliation passes calling                           *)
(*             createStorageClassDeviceSetPVC concurrently; the store's    *)
(*             list and create requests are separate atomic steps.         *)
(*   SeqSpec   one pass at a time: prepareStorageClassDeviceSets and       *)
(*             direct calls of createStorageClassDeviceSetPVC, never       *)
(*             overlapping.                                                *)
(*   BuildSpec makeJob and makeDeployment applied to worker descriptors.   *)
(***************************************************************************)
EXTENDS Integers, Sequences, FiniteSets, TLC

VARIABLES
    DesiredStorage,  \* c.DesiredStorage.StorageClassDeviceSets
    store,           \* the PersistentVolumeClaims of c.Namespace
    pc,              \* per pass: position in createStorageClassDeviceSetPVC / prepare
    call,            \* per pass: arguments of the running createStorageClassDeviceSetPVC
    presentPVCs,     \* per pass: the items the list request returned
    ret,             \* per pass: (pvc, err) of createStorageClassDeviceSetPVC
    loop,            \* per pass: prepareStorageClassDeviceSets' loop position and results
    lastReturned,    \* history: per identity, the PVC the last successful call returned
    cluster,         \* the Cluster fields the manifest builder reads
    request,         \* the arguments of the manifest builder call made
    workload         \* what makeJob / makeDeployment returned

allocVars == <<DesiredStorage, store, pc, call, presentPVCs, ret, loop, lastReturned>>
buildVars == <<cluster, request, workload>>
vars == <<DesiredStorage, store, pc, call, presentPVCs, ret, loop, lastReturned,
          cluster, request, workload>>

(***************************************************************************)
(* Bounds of the model.                                                    *)
(***************************************************************************)
MaxCount == 2    \* largest Count of the first device set
MaxPVCs == 4     \* the store accepts no create request beyond this many PVCs
MaxDirs == 2     \* longest directory list of a worker descriptor

Passes == {"r1", "r2"}
SeqPass == "r1"

NoCall == [set |-> 0, setIndex |-> 0]
NoRet == [done |-> FALSE, ok |-> FALSE, pvc |-> "", err |-> "", created |-> FALSE]
NoLoop == [active |-> FALSE, i |-> 1, setIndex |-> 0, volumeSources |-> <<>>, errors |-> <<>>]
NoName == ""

(***************************************************************************)
(* Labels: maps from label key to value.                                   *)
(***************************************************************************)
PVCIdKey == "ceph.rook.io/StorageClassDeviceSetPVCId"
NoLabels == [k \in {} |-> ""]

\* for k, v := range pvcTemplate.GetLabels() { pvcLabels[k] = v }
MergeLabels(pvcLabels, templateLabels) ==
    [k \in DOMAIN pvcLabels \cup DOMAIN templateLabels |->
        IF k \in DOMAIN templateLabels THEN templateLabels[k] ELSE pvcLabels[k]]

\* fmt.Sprintf("%s-%v-%v", storageClassDeviceSetName, setIndex, pvcIndex)
makeStorageClassDeviceSetPVCID(storageClassDeviceSetName, setIndex, pvcIndex) ==
    storageClassDeviceSetName \o "-" \o ToString(setIndex) \o "-" \o ToString(pvcIndex)

\* the label selector "ceph.rook.io/StorageClassDeviceSetPVCId=<id>"
LabelSelector(pvcId) == [key |-> PVCIdKey, value |-> pvcId]

makeStorageClassDeviceSetPVCLabel(storageClassDeviceSetName, pvcId, pvcIndex, setIndex) ==
    [k \in {"ceph.rook.io/storageClassDeviceSet", "ceph.rook.io/pvcIndex",
            "ceph.rook.io/setIndex", PVCIdKey} |->
        CASE k = "ceph.rook.io/storageClassDeviceSet" -> storageClassDeviceSetName
          [] k = "ceph.rook.io/pvcIndex" -> ToString(pvcIndex)
          [] k = "ceph.rook.io/setIndex" -> ToString(setIndex)
          [] OTHER -> pvcId]

makeStorageClassDeviceSetPVC(storageClassDeviceSetName, pvcId, pvcIndex, setIndex, pvcTemplate) ==
    [GenerateName |->
        IF pvcTemplate.Name # ""
        THEN pvcId \o "-" \o pvcTemplate.Name \o "-"
        ELSE pvcId \o "-",
     Labels |-> MergeLabels(
        makeStorageClassDeviceSetPVCLabel(storageClassDeviceSetName, pvcId, pvcIndex, setIndex),
        pvcTemplate.Labels)]

(***************************************************************************)
(* The store: list by label selector, create with a generated name.        *)
(***************************************************************************)
Matches(pvc, selector) ==
    selector.key \in DOMAIN pvc.Labels /\ pvc.Labels[selector.key] = selector.value

StoreList(selector) == {pvc \in store : Matches(pvc, selector)}

\* the server completes GenerateName to a name no object has yet
StoreGenerate(pvc) ==
    [Name |-> pvc.GenerateName \o
                ToString(Cardinality({q \in store : q.GenerateName = pvc.GenerateName}) + 1),
     GenerateName |-> pvc.GenerateName,
     Labels |-> pvc.Labels]

(***************************************************************************)
(* Desired state: two device sets, each with its count, its resources      *)
(* (whether they pass CheckPodMemory) and its volume claim templates.      *)
(***************************************************************************)
PlainTemplate == [Name |-> "data", Labels |-> NoLabels]
RelabelledTemplate == [Name |-> "", Labels |-> [k \in {PVCIdKey} |-> "a-0-0"]]
TemplateLists == {<<>>, <<PlainTemplate>>, <<RelabelledTemplate>>}

DeviceSetsA(memory) ==
    [Name : {"a"}, Count : 1..MaxCount, MemoryOK : memory, VolumeClaimTemplates : TemplateLists]
DeviceSetsB(memory) ==
    [Name : {"b"}, Count : 0..1, MemoryOK : memory, VolumeClaimTemplates : TemplateLists]
Configurations(memory) ==
    {<<a, b>> : a \in DeviceSetsA(memory), b \in DeviceSetsB(memory)}

CallId(c) == makeStorageClassDeviceSetPVCID(DesiredStorage[c.set].Name, c.setIndex, 0)

Identities ==
    {makeStorageClassDeviceSetPVCID(n, i, 0) : n \in {"a", "b"}, i \in 0..(MaxCount - 1)}

Ok(name, created) == [done |-> TRUE, ok |-> TRUE, pvc |-> name, err |-> "", created |-> created]
Err(kind) == [done |-> TRUE, ok |-> FALSE, pvc |-> NoName, err |-> kind, created |-> FALSE]

\* the claim createStorageClassDeviceSetPVC builds before it asks the store (line 49)
NewPVC(c) ==
    makeStorageClassDeviceSetPVC(DesiredStorage[c.set].Name, CallId(c), 0, c.setIndex,
                                 DesiredStorage[c.set].VolumeClaimTemplates[1])

(***************************************************************************)
(* createStorageClassDeviceSetPVC, one action per request to the store.    *)
(***************************************************************************)
\* entry: the template check, the identity and the claim to create
EnterCall(p, s, i) ==
    /\ call' = [call EXCEPT ![p] = [set |-> s, setIndex |-> i]]
    /\ IF Len(DesiredStorage[s].VolumeClaimTemplates) = 0
       THEN /\ pc' = [pc EXCEPT ![p] = "ret"]
            /\ ret' = [ret EXCEPT ![p] = Err("No PVC available")]
       ELSE /\ pc' = [pc EXCEPT ![p] = "list"]
            /\ ret' = [ret EXCEPT ![p] = NoRet]
    /\ presentPVCs' = [presentPVCs EXCEPT ![p] = {}]

Call(p, s, i) ==
    /\ pc[p] = "idle"
    /\ s \in 1..Len(DesiredStorage)
    /\ i \in 0..(DesiredStorage[s].Count - 1)
    /\ EnterCall(p, s, i)
    /\ UNCHANGED <<DesiredStorage, store, loop, cluster, request, workload>>

\* what the call does with the items the list request returned
ListOutcomeReuseFirst(items) ==
    CASE Cardinality(items) = 0 -> [next |-> "create", ret |-> NoRet]
      [] OTHER -> [next |-> "ret", ret |-> Ok((CHOOSE x \in items : TRUE).Name, FALSE)]

ListOutcome(items) ==
    CASE Cardinality(items) = 0 -> [next |-> "create", ret |-> NoRet]
      [] Cardinality(items) = 1 ->
            [next |-> "ret", ret |-> Ok((CHOOSE x \in items : TRUE).Name, FALSE)]
      [] OTHER -> [next |-> "ret", ret |-> Err("more than one PVCs exists")]

\* lines 52-55 going on after a failed list request, with no items
ListIgnoringError(p, fails) ==
    /\ pc[p] = "list"
    /\ LET items == IF fails THEN {} ELSE StoreList(LabelSelector(CallId(call[p])))
           out == ListOutcome(items)
       IN  /\ presentPVCs' = [presentPVCs EXCEPT ![p] = {x.Name : x \in items}]
           /\ pc' = [pc EXCEPT ![p] = out.next]
           /\ ret' = [ret EXCEPT ![p] =
                        IF fails THEN Err("failed to create pvc: list") ELSE out.ret]
    /\ UNCHANGED <<DesiredStorage, store, call, loop, cluster, request, workload>>

List(p, fails) ==
    /\ pc[p] = "list"
    /\ IF fails
       THEN /\ pc' = [pc EXCEPT ![p] = "ret"]
            /\ ret' = [ret EXCEPT ![p] = Err("failed to create pvc: list")]
            /\ UNCHANGED presentPVCs
       ELSE LET items == StoreList(LabelSelector(CallId(call[p])))
                out == ListOutcome(items)
            IN  /\ presentPVCs' = [presentPVCs EXCEPT ![p] = {x.Name : x \in items}]
                /\ pc' = [pc EXCEPT ![p] = out.next]
                /\ ret' = [ret EXCEPT ![p] = out.ret]
    /\ UNCHANGED <<DesiredStorage, store, call, loop, cluster, request, workload>>

\* the store after a create request that succeeded
StoreAfterCreateLost(pvc) == store

StoreAfterCreate(pvc) == store \cup {pvc}

Create(p, fails) ==
    /\ pc[p] = "create"
    /\ IF fails
       THEN /\ ret' = [ret EXCEPT ![p] = Err("failed to create pvc: create")]
            /\ UNCHANGED store
       ELSE /\ Cardinality(store) < MaxPVCs
            /\ LET deployedPVC == StoreGenerate(NewPVC(call[p]))
               IN  /\ store' = StoreAfterCreate(deployedPVC)
                   /\ ret' = [ret EXCEPT ![p] = Ok(deployedPVC.Name, TRUE)]
    /\ pc' = [pc EXCEPT ![p] = "ret"]
    /\ UNCHANGED <<DesiredStorage, call, presentPVCs, loop, cluster, request, workload>>

(***************************************************************************)
(* prepareStorageClassDeviceSets: the loop over the device sets and their  *)
(* set indices; Return hands a call's result back to its caller.           *)
(***************************************************************************)
StartPrepare(p) ==
    /\ pc[p] = "idle"
    /\ pc' = [pc EXCEPT ![p] = "loop"]
    /\ loop' = [loop EXCEPT ![p] = [NoLoop EXCEPT !.active = TRUE]]
    /\ UNCHANGED <<DesiredStorage, store, call, presentPVCs, ret, cluster, request, workload>>

LoopStep(p) ==
    /\ pc[p] = "loop"
    /\ LET l == loop[p] IN
       IF l.i > Len(DesiredStorage)
       THEN \* return volumeSources
            /\ pc' = [pc EXCEPT ![p] = "idle"]
            /\ loop' = [loop EXCEPT ![p].active = FALSE]
            /\ UNCHANGED <<call, presentPVCs, ret>>
       ELSE IF l.setIndex = 0 /\ ~DesiredStorage[l.i].MemoryOK
       THEN \* CheckPodMemory failed: addError, continue
            /\ loop' = [loop EXCEPT ![p].i = l.i + 1,
                                    ![p].errors = Append(l.errors,
                                        [msg |-> "cannot use storageClassDeviceSet",
                                         set |-> DesiredStorage[l.i].Name, setIndex |-> 0])]
            /\ UNCHANGED <<pc, call, presentPVCs, ret>>
       ELSE IF l.setIndex >= DesiredStorage[l.i].Count
       THEN /\ loop' = [loop EXCEPT ![p].i = l.i + 1, ![p].setIndex = 0]
            /\ UNCHANGED <<pc, call, presentPVCs, ret>>
       ELSE /\ EnterCall(p, l.i, l.setIndex)
            /\ UNCHANGED loop
    /\ UNCHANGED <<DesiredStorage, store, cluster, request, workload>>

\* lines 21-36: what the loop body does with (pvc, err)
AfterCallAbort(l, r, name) ==
    IF r.ok
    THEN [l EXCEPT !.setIndex = l.setIndex + 1,
                   !.volumeSources = Append(l.volumeSources,
                        [Name |-> name, ClaimName |-> r.pvc])]
    ELSE [l EXCEPT !.i = Len(DesiredStorage) + 1,
                   !.errors = l.errors \o
                        << [msg |-> r.err, set |-> name, setIndex |-> l.setIndex],
                           [msg |-> "OSD creation failed for count",
                            set |-> name, setIndex |-> l.setIndex] >>]

AfterCall(l, r, name) ==
    IF r.ok
    THEN [l EXCEPT !.setIndex = l.setIndex + 1,
                   !.volumeSources = Append(l.volumeSources,
                        [Name |-> name, ClaimName |-> r.pvc])]
    ELSE [l EXCEPT !.setIndex = l.setIndex + 1,
                   !.errors = l.errors \o
                        << [msg |-> r.err, set |-> name, setIndex |-> l.setIndex],
                           [msg |-> "OSD creation failed for count",
                            set |-> name, setIndex |-> l.setIndex] >>]

Return(p) ==
    /\ pc[p] = "ret"
    /\ IF loop[p].active
       THEN /\ pc' = [pc EXCEPT ![p] = "loop"]
            /\ loop' = [loop EXCEPT ![p] =
                            AfterCall(loop[p], ret[p], DesiredStorage[call[p].set].Name)]
       ELSE /\ pc' = [pc EXCEPT ![p] = "idle"]
            /\ UNCHANGED loop
    /\ call' = [call EXCEPT ![p] = NoCall]
    /\ presentPVCs' = [presentPVCs EXCEPT ![p] = {}]
    /\ ret' = [ret EXCEPT ![p] = NoRet]
    /\ UNCHANGED <<DesiredStorage, store, cluster, request, workload>>

(***************************************************************************)
(* History of the calls: the PVC the last successful call for an identity  *)
(* returned, forgotten when a call for another identity writes the store.  *)
(***************************************************************************)
Track(p) ==
    lastReturned' =
        IF pc[p] = "create" /\ store' # store
        THEN [x \in Identities |->
                IF x = CallId(call[p]) THEN lastReturned[x] ELSE NoName]
        ELSE IF pc[p] = "ret" /\ ret[p].ok
        THEN [lastReturned EXCEPT ![CallId(call[p])] = ret[p].pvc]
        ELSE lastReturned

NoCluster ==
    [used |-> FALSE, dataDirHostPath |-> "", HostNetwork |-> FALSE,
     CephVersion |-> [Major |-> 0, Minor |-> 0, Extra |-> 0],
     MemoryLimit |-> 0, hostpathRequiresPrivileged |-> ""]
NoRequest == [op |-> "none"]
NoWorkload == [kind |-> "none"]

AllocInit(memory) ==
    /\ DesiredStorage \in Configurations(memory)
    /\ store = {}
    /\ pc = [p \in Passes |-> "idle"]
    /\ call = [p \in Passes |-> NoCall]
    /\ presentPVCs = [p \in Passes |-> {}]
    /\ ret = [p \in Passes |-> NoRet]
    /\ loop = [p \in Passes |-> NoLoop]
    /\ lastReturned = [x \in Identities |-> NoName]
    /\ cluster = NoCluster
    /\ request = NoRequest
    /\ workload = NoWorkload

(***************************************************************************)
(* Spec: the passes call createStorageClassDeviceSetPVC concurrently.      *)
(***************************************************************************)
Init == AllocInit({TRUE})

Next ==
    \/ \E p \in Passes, s \in 1..2, i \in 0..(MaxCount - 1) :
          Call(p, s, i) /\ UNCHANGED lastReturned
    \/ \E p \in Passes, fails \in BOOLEAN : List(p, fails) /\ UNCHANGED lastReturned
    \/ \E p \in Passes, fails \in BOOLEAN : Create(p, fails) /\ UNCHANGED lastReturned
    \/ \E p \in Passes : Return(p) /\ UNCHANGED lastReturned

Spec == Init /\ [][Next]_vars

(***************************************************************************)
(* SeqSpec: one pass; its calls never overlap.                             *)
(***************************************************************************)
SeqInit == AllocInit(BOOLEAN)

SeqNext ==
    \/ \E s \in 1..2, i \in 0..(MaxCount - 1) : Call(SeqPass, s, i) /\ Track(SeqPass)
    \/ StartPrepare(SeqPass) /\ Track(SeqPass)
    \/ LoopStep(SeqPass) /\ Track(SeqPass)
    \/ \E fails \in BOOLEAN : List(SeqPass, fails) /\ Track(SeqPass)
    \/ \E fails \in BOOLEAN : Create(SeqPass, fails) /\ Track(SeqPass)
    \/ Return(SeqPass) /\ Track(SeqPass)

SeqSpec == SeqInit /\ [][SeqNext]_vars

(***************************************************************************)
(* The manifest builder.  A volume is [Name, Source], a mount is           *)
(* [Name, MountPath], an environment variable is [Name, Value].  An        *)
(* argument is <<word>>, or <<format prefix, value>> where the code formats *)
(* a value into the argument with fmt.Sprintf.                             *)
(***************************************************************************)
DataDir == "/var/lib/rook"            \* k8sutil.DataDir
rookBinariesMountPath == "/rook"
rookBinariesVolumeName == "rook-binaries"
BinariesMountPath == "/rook"          \* k8sutil.BinariesMountPath
OSDsPerDeviceKey == "osdsPerDevice"   \* config.OSDsPerDeviceKey
MetadataDeviceKey == "metadataDevice" \* config.MetadataDeviceKey

Word(w) == <<w>>
Words(ws) == [i \in 1..Len(ws) |-> <<ws[i]>>]
Sprintf(prefix, value) == <<prefix, value>>
HasFlag(args, prefix) == \E i \in 1..Len(args) : Len(args[i]) = 2 /\ args[i][1] = prefix
HasWord(args, w) == \E i \in 1..Len(args) : args[i] = <<w>>

\* path.Join of two clean elements
PathJoin(a, b) == a \o "/" \o b

\* strings.Join(elems, sep)
RECURSIVE StringsJoin(_, _)
StringsJoin(elems, sep) ==
    IF Len(elems) = 0 THEN ""
    ELSE IF Len(elems) = 1 THEN elems[1]
    ELSE elems[1] \o sep \o StringsJoin(Tail(elems), sep)

HostPath(path) == [kind |-> "HostPath", path |-> path, medium |-> ""]
EmptyDir(medium) == [kind |-> "EmptyDir", path |-> "", medium |-> medium]
ClaimSource(claimName) == [kind |-> "PersistentVolumeClaim", path |-> claimName, medium |-> ""]
Volume(name, source) == [Name |-> name, Source |-> source]
VolumeMount(name, mountPath) == [Name |-> name, MountPath |-> mountPath]
EnvVar(name, value) == [Name |-> name, Value |-> value]

\* opspec.PodVolumes, opspec.CephVolumeMounts and opspec.RookVolumeMounts
PodVolumes(dataDirHostPath) ==
    << Volume("rook-data", IF dataDirHostPath # "" THEN HostPath(dataDirHostPath) ELSE EmptyDir("")),
       Volume("rook-config-override", [kind |-> "ConfigMap", path |-> "rook-config-override", medium |-> ""]),
       Volume("rook-ceph-log", HostPath(PathJoin(dataDirHostPath, "log"))) >>
CephVolumeMounts ==
    << VolumeMount("rook-data", DataDir),
       VolumeMount("rook-config-override", "/etc/ceph"),
       VolumeMount("rook-ceph-log", "/var/log/ceph") >>
RookVolumeMounts ==
    << VolumeMount("rook-data", DataDir),
       VolumeMount("rook-config-override", "/etc/ceph") >>

\* k8sutil.PathToVolumeName on the paths of the model
PathToVolumeName(path) ==
    CASE path = "/mnt/a" -> "mnt-a"
      [] path = "/mnt/b" -> "mnt-b"
      [] path = DataDir -> "var-lib-rook"
      [] OTHER -> path

\* version.CephVersion: IsAtLeast and IsAtLeastNautilus
IsAtLeast(v, other) ==
    \/ v.Major > other.Major
    \/ v.Major = other.Major /\ v.Minor > other.Minor
    \/ v.Major = other.Major /\ v.Minor = other.Minor /\ v.Extra >= other.Extra
IsAtLeastNautilus(v) == IsAtLeast(v, [Major |-> 14, Minor |-> 0, Extra |-> 0])

\* IsRemovingNode of the osd package
IsRemovingNode(deviceFilter) == deviceFilter = "none"

\* lines 680-684 for a cluster that skips no directory
skipVolumeForDirectoryNever(path) == FALSE

skipVolumeForDirectory(path) == path = DataDir

nodeNameEnvVar(name) == EnvVar("ROOK_NODE_NAME", name)
dataDevicesEnvVar(dataDevices) == EnvVar("ROOK_DATA_DEVICES", dataDevices)
deviceFilterEnvVar(filter) == EnvVar("ROOK_DATA_DEVICE_FILTER", filter)
metadataDeviceEnvVar(metadataDevice) == EnvVar("ROOK_METADATA_DEVICE", metadataDevice)
dataDirectoriesEnvVar(dataDirectories) == EnvVar("ROOK_DATA_DIRECTORIES", dataDirectories)
pvcBackedOSDEnvVar(pvcBacked) == EnvVar("ROOK_PVC_BACKED_OSD", pvcBacked)

getCopyBinariesContainer ==
    [volume |-> Volume(rookBinariesVolumeName, EmptyDir("")),
     container |->
        [Name |-> "copy-bins",
         Command |-> <<>>,
         Args |-> Words(<<"copy-binaries", "--copy-to-dir", rookBinariesMountPath>>),
         VolumeMounts |-> <<VolumeMount(rookBinariesVolumeName, rookBinariesMountPath)>>,
         VolumeDevices |-> <<>>,
         Env |-> <<>>,
         Privileged |-> "unset"]]

\* lines 511-530 with the bridge mount named without the claim
getInitContainersPlainBridge(claimName) ==
    [Name |-> "blkdevmapper",
     Command |-> <<>>,
     Args |-> Words(<<"cp", "-a", "/" \o claimName, "/mnt/" \o claimName>>),
     VolumeMounts |-> <<VolumeMount("bridge", "/mnt")>>,
     VolumeDevices |-> <<[Name |-> claimName, DevicePath |-> "/" \o claimName]>>,
     Env |-> <<>>,
     Privileged |-> "unset"]

getInitContainers(claimName) ==
    [Name |-> "blkdevmapper",
     Command |-> <<>>,
     Args |-> Words(<<"cp", "-a", "/" \o claimName, "/mnt/" \o claimName>>),
     VolumeMounts |-> <<VolumeMount(claimName \o "-bridge", "/mnt")>>,
     VolumeDevices |-> <<[Name |-> claimName, DevicePath |-> "/" \o claimName]>>,
     Env |-> <<>>,
     Privileged |-> "unset"]

IfSeq(cond, seq) == IF cond THEN seq ELSE <<>>

getConfigEnvVars(storeConfig, dataDir, nodeName, location) ==
    << nodeNameEnvVar(nodeName),
       EnvVar("ROOK_CLUSTER_ID", "uid"),
       EnvVar("ROOK_PRIVATE_IP", "status.podIP"),
       EnvVar("ROOK_PUBLIC_IP", "status.podIP"),
       EnvVar("ROOK_CLUSTER_NAME", "rook-ceph"),
       EnvVar("ROOK_MON_ENDPOINTS", "configmap"),
       EnvVar("ROOK_MON_SECRET", "secret"),
       EnvVar("ROOK_ADMIN_SECRET", "secret"),
       EnvVar("ROOK_CONFIG_DIR", dataDir),
       EnvVar("ROOK_CEPH_CONFIG_OVERRIDE", "/etc/rook/config/override.conf"),
       EnvVar("ROOK_FSID", "secret") >>
    \o IfSeq(storeConfig.StoreType # "", <<EnvVar("ROOK_OSD_STORE", storeConfig.StoreType)>>)
    \o IfSeq(storeConfig.DatabaseSizeMB # 0,
             <<EnvVar("ROOK_OSD_DATABASE_SIZE", ToString(storeConfig.DatabaseSizeMB))>>)
    \o IfSeq(storeConfig.WalSizeMB # 0,
             <<EnvVar("ROOK_OSD_WAL_SIZE", ToString(storeConfig.WalSizeMB))>>)
    \o IfSeq(storeConfig.JournalSizeMB # 0,
             <<EnvVar("ROOK_OSD_JOURNAL_SIZE", ToString(storeConfig.JournalSizeMB))>>)
    \o IfSeq(storeConfig.OSDsPerDevice # 0,
             <<EnvVar("ROOK_OSDS_PER_DEVICE", ToString(storeConfig.OSDsPerDevice))>>)
    \o IfSeq(storeConfig.EncryptedDevice, <<EnvVar("ROOK_ENCRYPTED_DEVICE", "true")>>)
    \o IfSeq(location # "", <<EnvVar("ROOK_LOCATION", location)>>)

osdOnSDNFlag(hostnetwork, v) ==
    IfSeq(~hostnetwork /\ IsAtLeast(v, [Major |-> 14, Minor |-> 2, Extra |-> 2]),
          <<Word("--ms-learn-addr-from-peer=false")>>)

(***************************************************************************)
(* provisionOSDContainer                                                   *)
(***************************************************************************)
\* lines 592-604: the inner count is a new variable of the if statement, so
\* the suffix is built from the outer one
deviceName(device) ==
    device.Name \o ":" \o "1"
    \o (IF MetadataDeviceKey \in DOMAIN device.Config
        THEN ":" \o device.Config[MetadataDeviceKey] ELSE "")

\* lines 586-617 with the metadata device left out
devMountNeededNoMetadata(osdObject) ==
    \/ Len(osdObject.devices) > 0
    \/ osdObject.selection.DeviceFilter # ""
    \/ osdObject.selection.UseAllDevices

devMountNeeded(osdObject) ==
    \/ Len(osdObject.devices) > 0
    \/ osdObject.selection.DeviceFilter # ""
    \/ osdObject.selection.UseAllDevices
    \/ osdObject.metadataDevice # ""

\* line 654
provisionPrivilegedNoPVC(osdObject, hostpathRequiresPrivileged) ==
    \/ devMountNeeded(osdObject)
    \/ hostpathRequiresPrivileged = "true"

provisionPrivileged(osdObject, hostpathRequiresPrivileged) ==
    \/ devMountNeeded(osdObject)
    \/ hostpathRequiresPrivileged = "true"
    \/ osdObject.pvc.ClaimName # ""

\* the directories of the list the loops do not skip, in order
RECURSIVE mountedDirectories(_)
mountedDirectories(dirs) ==
    IF Len(dirs) = 0 THEN <<>>
    ELSE (IF skipVolumeForDirectory(Head(dirs)) THEN <<>> ELSE <<Head(dirs)>>)
         \o mountedDirectories(Tail(dirs))

provisionOSDContainer(c, osdObject, copyBinariesMount) ==
    LET dirs == osdObject.selection.Directories
        deviceEnv ==
            IF Len(osdObject.devices) > 0
            THEN <<dataDevicesEnvVar(StringsJoin(
                      [i \in 1..Len(osdObject.devices) |-> deviceName(osdObject.devices[i])], ","))>>
            ELSE IF osdObject.selection.DeviceFilter # ""
            THEN <<deviceFilterEnvVar(osdObject.selection.DeviceFilter)>>
            ELSE IF osdObject.selection.UseAllDevices
            THEN <<deviceFilterEnvVar("all")>>
            ELSE <<>>
        dirMounts ==
            LET kept == mountedDirectories(dirs)
            IN  [i \in 1..Len(kept) |-> VolumeMount(PathToVolumeName(kept[i]), kept[i])]
    IN
    [Name |-> "provision",
     Command |-> <<PathJoin(rookBinariesMountPath, "tini")>>,
     Args |-> Words(<<"--", PathJoin(rookBinariesMountPath, "rook"), "ceph", "osd", "provision">>),
     VolumeMounts |->
        CephVolumeMounts \o <<copyBinariesMount>>
        \o IfSeq(devMountNeeded(osdObject),
                 <<VolumeMount("devices", "/dev"), VolumeMount("udev", "/run/udev")>>)
        \o IfSeq(osdObject.pvc.ClaimName # "",
                 <<VolumeMount(osdObject.pvc.ClaimName \o "-bridge", "/mnt")>>)
        \o dirMounts,
     VolumeDevices |-> <<>>,
     Env |->
        getConfigEnvVars(osdObject.storeConfig, DataDir, osdObject.name, osdObject.location)
        \o deviceEnv
        \o IfSeq(osdObject.metadataDevice # "", <<metadataDeviceEnvVar(osdObject.metadataDevice)>>)
        \o IfSeq(osdObject.pvc.ClaimName # "",
                 << dataDevicesEnvVar(StringsJoin(<<"/mnt/" \o osdObject.pvc.ClaimName>>, ",")),
                    pvcBackedOSDEnvVar("true") >>)
        \o IfSeq(Len(dirs) > 0 /\ ~IsRemovingNode(osdObject.selection.DeviceFilter),
                 <<dataDirectoriesEnvVar(StringsJoin(dirs, ","))>>),
     Privileged |-> provisionPrivileged(osdObject, c.hostpathRequiresPrivileged)]

(***************************************************************************)
(* provisionPodTemplateSpec and makeJob                                    *)
(***************************************************************************)
\* line 419 without the volumes every pod gets
provisionBaseVolumesNone(c) == <<>>

\* line 419
provisionBaseVolumes(c) == PodVolumes(c.dataDirHostPath) \o <<getCopyBinariesContainer.volume>>

provisionVolumes(c, osdObject) ==
    LET kept == mountedDirectories(osdObject.selection.Directories)
    IN  provisionBaseVolumes(c)
        \o IfSeq(devMountNeeded(osdObject),
                 <<Volume("devices", HostPath("/dev")), Volume("udev", HostPath("/run/udev"))>>)
        \o IfSeq(osdObject.pvc.ClaimName # "",
                 << Volume(osdObject.name, ClaimSource(osdObject.pvc.ClaimName)),
                    Volume(osdObject.pvc.ClaimName \o "-bridge", EmptyDir("Memory")) >>)
        \o [i \in 1..Len(kept) |-> Volume(PathToVolumeName(kept[i]), HostPath(kept[i]))]

BuildError(msg) == [kind |-> "error", err |-> msg]

provisionPodTemplateSpec(c, osdObject, restart) ==
    LET volumes == provisionVolumes(c, osdObject) IN
    IF Len(volumes) = 0
    THEN BuildError("empty volumes")
    ELSE [kind |-> "podTemplate",
          Containers |-> << getCopyBinariesContainer.container,
                            provisionOSDContainer(c, osdObject,
                                getCopyBinariesContainer.container.VolumeMounts[1]) >>,
          InitContainers |-> <<>>,
          RestartPolicy |-> restart,
          Volumes |-> volumes,
          HostNetwork |-> c.HostNetwork,
          DNSPolicy |-> IF c.HostNetwork THEN "ClusterFirstWithHostNet" ELSE "",
          HostIPC |-> osdObject.storeConfig.EncryptedDevice,
          NodeSelector |-> <<>>]

makeJob(c, osdObject) ==
    LET podSpec == provisionPodTemplateSpec(c, osdObject, "OnFailure") IN
    IF podSpec.kind = "error"
    THEN podSpec
    ELSE [podSpec EXCEPT
            !.kind = "job",
            !.NodeSelector = IF osdObject.pvc.ClaimName = ""
                             THEN <<osdObject.name>> ELSE <<>>,
            !.InitContainers = IF osdObject.pvc.ClaimName = ""
                               THEN <<>> ELSE <<getInitContainers(osdObject.pvc.ClaimName)>>]

(***************************************************************************)
(* makeDeployment.  osd.DataPath is kept as its directory and its last     *)
(* element, so that filepath.Dir is the directory.                         *)
(***************************************************************************)
DataPath(osd) == PathJoin(osd.DataPath.dir, osd.DataPath.base)
FilepathDir(osd) == osd.DataPath.dir

\* float32(limit) * osdMemoryTargetSafetyFactor printed with %f, for the
\* limits of the model (multiples of 1280, where the product is a whole number)
memoryTargetValue(limit) == ToString((limit * 8) \div 10) \o ".000000"

\* lines 192-198
memoryTargetArgs(c, osd) ==
    IfSeq(~osd.IsFileStore /\ ~IsAtLeastNautilus(c.CephVersion) /\ c.MemoryLimit # 0,
          <<Sprintf("--osd-memory-target=", memoryTargetValue(c.MemoryLimit))>>)

\* lines 200-202 with the test dropped
journalArgsAlways(osd) == <<Sprintf("--osd-journal=", osd.Journal)>>

\* lines 200-202
journalArgs(osd) == IfSeq(osd.IsFileStore, <<Sprintf("--osd-journal=", osd.Journal)>>)

commonArgs(c, osd) ==
    Words(<< "--foreground",
             "--id", ToString(osd.ID),
             "--conf", osd.Config,
             "--osd-data", DataPath(osd),
             "--keyring", osd.KeyringPath,
             "--cluster", osd.Cluster,
             "--osd-uuid", osd.UUID >>)
    \o memoryTargetArgs(c, osd)
    \o journalArgs(osd)
    \o IfSeq(IsAtLeast(c.CephVersion, [Major |-> 14, Minor |-> 2, Extra |-> 1]),
             Words(<<"--default-log-to-file", "false">>))
    \o osdOnSDNFlag(c.HostNetwork, c.CephVersion)

\* line 217 with the placement test inverted
filestoreOnDeviceInverted(osd) == osd.IsDirectory /\ osd.IsFileStore /\ ~osd.CephVolumeInitiated

\* line 217: filestore running on a device, not provisioned by ceph-volume
filestoreOnDevice(osd) == ~osd.IsDirectory /\ osd.IsFileStore /\ ~osd.CephVolumeInitiated

\* lines 215-282: the command and the arguments of the daemon container
daemonCommand(c, osd) ==
    IF filestoreOnDevice(osd)
    THEN [form |-> "filestore-device",
          command |-> <<PathJoin(BinariesMountPath, "tini")>>,
          args |-> Words(<< "--", PathJoin(BinariesMountPath, "rook"),
                            "ceph", "osd", "filestore-device",
                            "--source-path", PathJoin("/dev/disk/by-partuuid", osd.DevicePartUUID),
                            "--mount-path", DataPath(osd),
                            "--" >>)
                   \o commonArgs(c, osd)]
    ELSE IF osd.CephVolumeInitiated
    THEN \* lines 253-259 append the memory target to commonArgs, which this
         \* branch does not use again
         [form |-> "start",
          command |-> <<PathJoin(rookBinariesMountPath, "tini")>>,
          args |-> Words(<< "--", PathJoin(rookBinariesMountPath, "rook"),
                            "ceph", "osd", "start",
                            "--",
                            "--foreground",
                            "--id", ToString(osd.ID),
                            "--osd-uuid", osd.UUID,
                            "--conf", osd.Config,
                            "--cluster", "ceph",
                            "--setuser", "ceph",
                            "--setgroup", "ceph",
                            "--setuser-match-path", DataPath(osd) >>)
                   \o IfSeq(IsAtLeast(c.CephVersion, [Major |-> 14, Minor |-> 2, Extra |-> 1]),
                            Words(<<"--default-log-to-file", "false">>))
                   \o osdOnSDNFlag(c.HostNetwork, c.CephVersion)]
    ELSE [form |-> "ceph-osd",
          command |-> <<"ceph-osd">>,
          args |-> commonArgs(c, osd)]

makeDeployment(c, osdObject, osd) ==
    LET parentDir == FilepathDir(osd)
        dataDir == IF osd.IsDirectory THEN parentDir ELSE DataDir
        mountParent == osd.IsDirectory /\ parentDir # DataDir
        volumeName == PathToVolumeName(parentDir)
        pvcBacked == osdObject.pvc.ClaimName # ""
        volumes0 ==
            PodVolumes(c.dataDirHostPath)
            \o IfSeq(mountParent, <<Volume(volumeName, HostPath(parentDir))>>)
            \o IfSeq(~osd.IsDirectory, <<Volume("devices", HostPath("/dev"))>>)
            \o IfSeq(pvcBacked,
                     << Volume(osdObject.name, ClaimSource(osdObject.pvc.ClaimName)),
                        Volume(osdObject.pvc.ClaimName \o "-bridge", EmptyDir("Memory")) >>)
        cmd == daemonCommand(c, osd)
        storeType == IF osd.IsFileStore THEN "filestore" ELSE "bluestore"
        securityContext == TRUE
    IN
    IF Len(volumes0) = 0
    THEN BuildError("empty volumes")
    ELSE
    [kind |-> "deployment",
     Containers |-> <<
        [Name |-> "osd",
         Command |-> cmd.command,
         Args |-> cmd.args,
         VolumeMounts |->
            CephVolumeMounts
            \o IfSeq(mountParent, <<VolumeMount(volumeName, parentDir)>>)
            \o IfSeq(~osd.IsDirectory, <<VolumeMount("devices", "/dev")>>)
            \o <<getCopyBinariesContainer.container.VolumeMounts[1]>>
            \o IfSeq(cmd.form = "start", <<VolumeMount("run-udev", "/run/udev")>>)
            \o IfSeq(pvcBacked, <<VolumeMount(osdObject.pvc.ClaimName \o "-bridge", "/mnt")>>),
         VolumeDevices |-> <<>>,
         Env |->
            << nodeNameEnvVar(osdObject.name),
               EnvVar("ROOK_PRIVATE_IP", "status.podIP"),
               EnvVar("ROOK_PUBLIC_IP", "status.podIP"),
               EnvVar("TINI_SUBREAPER", ""),
               EnvVar("CONTAINER_IMAGE", "ceph/ceph"),
               EnvVar("ROOK_OSD_UUID", osd.UUID),
               EnvVar("ROOK_OSD_ID", ToString(osd.ID)),
               EnvVar("ROOK_OSD_STORE_TYPE", storeType) >>
            \o IfSeq(pvcBacked, <<pvcBackedOSDEnvVar("true")>>),
         Privileged |-> securityContext] >>,
     InitContainers |-> <<
        [Name |-> "config-init",
         Command |-> <<>>,
         Args |-> Words(<<"ceph", "osd", "init">>),
         VolumeMounts |->
            RookVolumeMounts \o IfSeq(mountParent, <<VolumeMount(volumeName, parentDir)>>),
         VolumeDevices |-> <<>>,
         Env |->
            getConfigEnvVars(osdObject.storeConfig, dataDir, osdObject.name, osdObject.location)
            \o << EnvVar("TINI_SUBREAPER", ""),
                  EnvVar("ROOK_OSD_ID", ToString(osd.ID)),
                  EnvVar("ROOK_CEPH_VERSION", ToString(c.CephVersion.Major)) >>
            \o IfSeq(~osd.IsDirectory, <<EnvVar("ROOK_IS_DEVICE", "true")>>),
         Privileged |-> securityContext],
        getCopyBinariesContainer.container >>
        \o IfSeq(pvcBacked, <<getInitContainers(osdObject.pvc.ClaimName)>>),
     RestartPolicy |-> "Always",
     Volumes |->
        volumes0
        \o <<getCopyBinariesContainer.volume>>
        \o IfSeq(cmd.form = "start", <<Volume("run-udev", HostPath("/run/udev"))>>),
     HostNetwork |-> c.HostNetwork,
     DNSPolicy |-> IF c.HostNetwork THEN "ClusterFirstWithHostNet" ELSE "ClusterFirst",
     HostIPC |-> osdObject.storeConfig.EncryptedDevice,
     NodeSelector |-> IF pvcBacked THEN <<>> ELSE <<osdObject.name>>]

(***************************************************************************)
(* BuildSpec: the operator's configuration is fixed at start; one worker   *)
(* descriptor is turned into a provisioning job or, with the runtime info  *)
(* of a provisioned worker, into a daemon deployment.                      *)
(***************************************************************************)
CephVersions ==
    { [Major |-> 13, Minor |-> 2, Extra |-> 4],
      [Major |-> 14, Minor |-> 2, Extra |-> 1],
      [Major |-> 14, Minor |-> 2, Extra |-> 2] }

Clusters ==
    [used : {TRUE},
     dataDirHostPath : {"/var/lib/rook"},
     HostNetwork : BOOLEAN,
     CephVersion : CephVersions,
     MemoryLimit : {0, 1280},
     hostpathRequiresPrivileged : {"", "true", "false"}]

NoConfig == [k \in {} |-> ""]
DeviceLists ==
    { <<>>,
      <<[Name |-> "sdb", Config |-> NoConfig]>>,
      <<[Name |-> "sdb", Config |-> NoConfig], [Name |-> "sdc", Config |-> NoConfig]>>,
      <<[Name |-> "sdb", Config |-> [k \in {OSDsPerDeviceKey} |-> "3"]],
        [Name |-> "sdc", Config |-> [k \in {MetadataDeviceKey} |-> "nvme0n1"]]>> }

RECURSIVE SeqsUpTo(_, _)
SeqsUpTo(S, n) ==
    IF n = 0 THEN {<<>>}
    ELSE SeqsUpTo(S, n - 1) \cup {Append(q, x) : q \in {r \in SeqsUpTo(S, n - 1) : Len(r) = n - 1}, x \in S}

DirectoryLists == SeqsUpTo({DataDir, "/mnt/a"}, MaxDirs)

StoreConfigs ==
    [StoreType : {"", "bluestore"}, DatabaseSizeMB : {0}, WalSizeMB : {0},
     JournalSizeMB : {0}, OSDsPerDevice : {0}, EncryptedDevice : {FALSE}]
    \cup
    [StoreType : {"filestore"}, DatabaseSizeMB : {0}, WalSizeMB : {0},
     JournalSizeMB : {1024}, OSDsPerDevice : {2}, EncryptedDevice : {TRUE}]

ClaimNames == {"", "set1-0-data-x7"}

\* the names a worker descriptor has: a node's, or a claim's
ObjectNames == {"node1"} \cup (ClaimNames \ {""})

\* the device filters of a selection: none, a pattern, and the one that
\* marks the node as being removed
DeviceFilters == {"", "^sd.", "none"}

\* the worker descriptors makeJob is given
OSDObjects ==
    {o \in [name : ObjectNames,
            devices : DeviceLists,
            selection : [DeviceFilter : DeviceFilters, UseAllDevices : BOOLEAN,
                         Directories : DirectoryLists],
            metadataDevice : {"", "nvme0n1"},
            pvc : [ClaimName : ClaimNames],
            storeConfig : {sc \in StoreConfigs : sc.StoreType # "bluestore"},
            location : {""}] :
        o.name = "node1" \/ o.name = o.pvc.ClaimName}

\* the worker descriptors makeDeployment is given: it reads the name, the
\* claim, the store configuration and the location
DaemonOSDObjects ==
    {o \in [name : ObjectNames,
            devices : {<<>>},
            selection : [DeviceFilter : {""}, UseAllDevices : {FALSE}, Directories : {<<>>}],
            metadataDevice : {""},
            pvc : [ClaimName : ClaimNames],
            storeConfig : StoreConfigs,
            location : {"", "rack=r1"}] :
        o.name = "node1" \/ o.name = o.pvc.ClaimName}

OSDInfos ==
    [ID : {0, 12},
     UUID : {"6f1c"},
     DataPath : [dir : {DataDir, "/mnt/a"}, base : {"osd0"}],
     Config : {"/var/lib/rook/osd0/rook-ceph.config"},
     KeyringPath : {"/var/lib/rook/osd0/keyring"},
     Cluster : {"rook-ceph"},
     Journal : {"/var/lib/rook/osd0/journal"},
     IsFileStore : BOOLEAN,
     IsDirectory : BOOLEAN,
     DevicePartUUID : {"a1b2"},
     CephVolumeInitiated : BOOLEAN]

BuildInit ==
    /\ DesiredStorage = <<>>
    /\ store = {}
    /\ pc = [p \in Passes |-> "idle"]
    /\ call = [p \in Passes |-> NoCall]
    /\ presentPVCs = [p \in Passes |-> {}]
    /\ ret = [p \in Passes |-> NoRet]
    /\ loop = [p \in Passes |-> NoLoop]
    /\ lastReturned = [x \in Identities |-> NoName]
    /\ cluster \in Clusters
    /\ request = NoRequest
    /\ workload = NoWorkload

MakeJob(osdObject) ==
    /\ request = NoRequest
    /\ request' = [op |-> "makeJob", osdObject |-> osdObject]
    /\ workload' = makeJob(cluster, osdObject)
    /\ UNCHANGED <<DesiredStorage, store, pc, call, presentPVCs, ret, loop, lastReturned, cluster>>

MakeDeployment(osdObject, osd) ==
    /\ request = NoRequest
    /\ request' = [op |-> "makeDeployment", osdObject |-> osdObject, osd |-> osd]
    /\ workload' = makeDeployment(cluster, osdObject, osd)
    /\ UNCHANGED <<DesiredStorage, store, pc, call, presentPVCs, ret, loop, lastReturned, cluster>>

BuildNext ==
    \/ \E osdObject \in OSDObjects : MakeJob(osdObject)
    \/ \E osdObject \in DaemonOSDObjects, osd \in OSDInfos : MakeDeployment(osdObject, osd)

BuildSpec == BuildInit /\ [][BuildNext]_vars

(***************************************************************************)
(* Claims about the volume claim allocator.                                *)
(***************************************************************************)
MatchCount(pvcId) == Cardinality(StoreList(LabelSelector(pvcId)))

StoreFailed(r) == r.err \in {"failed to create pvc: list", "failed to create pvc: create"}

\* C1: once a call for an identity has succeeded, a later call for the same
\* device set and set index, with no write to the store in between and no
\* failing store request, creates no PVC and returns the PVC the earlier call
\* returned.
C1_Idempotent ==
    \A p \in Passes :
        (pc[p] = "ret" /\ lastReturned[CallId(call[p])] # NoName /\ ~StoreFailed(ret[p]))
            => /\ ret[p].ok
               /\ ret[p].pvc = lastReturned[CallId(call[p])]
               /\ ~ret[p].created

\* C2: in sequential calls starting from an empty store, no identity ever has
\* more than one PVC, and when a call returns success exactly one PVC carries
\* the identity the call was made for.
C2_OnePerIdentity ==
    /\ \A x \in Identities : MatchCount(x) <= 1
    /\ \A p \in Passes :
          (pc[p] = "ret" /\ ret[p].ok) => MatchCount(CallId(call[p])) = 1

\* C3: a call whose list request finds two or more PVCs with its identity
\* returns an error and no PVC and leaves the store as it is; PVCs sharing an
\* identity keep sharing it, so every later call for it fails the same way.
C3_FailClosed ==
    /\ [](\A p \in Passes :
            (pc[p] = "ret" /\ Cardinality(presentPVCs[p]) >= 2)
                => (~ret[p].ok /\ ret[p].pvc = NoName /\ ~ret[p].created))
    /\ [][\A p \in Passes :
            /\ (pc[p] = "list" /\ pc'[p] # "list" /\ MatchCount(CallId(call[p])) >= 2)
                  => (pc'[p] = "ret" /\ ~ret'[p].ok /\ ret'[p].pvc = NoName /\ store' = store)
            /\ (pc[p] = "ret" /\ pc'[p] # "ret") => store' = store]_vars
    /\ [][\A x \in Identities :
            MatchCount(x) >= 2 =>
                StoreList(LabelSelector(x)) \subseteq {q \in store' : Matches(q, LabelSelector(x))}]_vars

C3_Witness ==
    \E p \in Passes :
        /\ pc[p] = "ret"
        /\ Cardinality(presentPVCs[p]) >= 2
        /\ MatchCount(CallId(call[p])) >= 2

\* C4: when two passes run the call for the same device set and set index
\* and both list before either creates, both create: the store then holds two
\* distinct PVCs carrying the same identity labels.
C4_BothCreate ==
    \A p, q \in Passes :
        (/\ p # q
         /\ pc[p] = "ret" /\ pc[q] = "ret"
         /\ ret[p].created /\ ret[q].created
         /\ call[p] = call[q])
            => /\ ret[p].pvc # ret[q].pvc
               /\ \A r \in {p, q} :
                     \E x \in store :
                        x.Name = ret[r].pvc /\ x.Labels = NewPVC(call[r]).Labels

C4_Witness ==
    \E p, q \in Passes :
        /\ p # q
        /\ pc[p] = "ret" /\ pc[q] = "ret"
        /\ ret[p].created /\ ret[q].created
        /\ call[p] = call[q]
        /\ DesiredStorage[call[p].set].VolumeClaimTemplates = <<PlainTemplate>>
        /\ MatchCount(CallId(call[p])) = 2

(***************************************************************************)
(* Claims about the manifest builder.                                      *)
(***************************************************************************)
JobBuilt == request.op = "makeJob"
DeploymentBuilt == request.op = "makeDeployment"

\* none of: explicit devices, device filter, use-all-devices, metadata
\* device, directories, bound PVC
NothingSelected(o) ==
    /\ Len(o.devices) = 0
    /\ o.selection.DeviceFilter = ""
    /\ ~o.selection.UseAllDevices
    /\ o.metadataDevice = ""
    /\ Len(o.selection.Directories) = 0
    /\ o.pvc.ClaimName = ""

VolumeNames(w) == {w.Volumes[i].Name : i \in 1..Len(w.Volumes)}
ProvisionContainer(w) == w.Containers[2]
DaemonContainer(w) == w.Containers[1]

\* C5 (as claimed): a worker descriptor with nothing selected makes makeJob
\* fail with the 'empty volumes' error and return no workload.
C5_NothingSelectedFails ==
    (JobBuilt /\ NothingSelected(request.osdObject)) => workload = BuildError("empty volumes")

\* C5 (amended): for a worker descriptor with nothing selected makeJob
\* succeeds; the pod has the copy-binaries volume and the volumes every pod
\* gets, and none of the device, claim or directory volumes; makeJob never
\* returns the 'empty volumes' error.
C5_NothingSelectedBuilds ==
    /\ (JobBuilt /\ NothingSelected(request.osdObject)) =>
          /\ workload.kind = "job"
          /\ rookBinariesVolumeName \in VolumeNames(workload)
          /\ Len(workload.Volumes) = Len(PodVolumes(cluster.dataDirHostPath)) + 1
          /\ VolumeNames(workload) \cap {"devices", "udev"} = {}
    /\ JobBuilt => workload.kind # "error"

C5_Witness ==
    JobBuilt /\ NothingSelected(request.osdObject) /\ workload.kind = "job"

\* C6: for a worker descriptor with at least one of explicit devices, device
\* filter, use-all-devices, metadata device, directories or bound PVC, makeJob
\* succeeds; every workload makeJob or makeDeployment returns has at least one
\* volume.
C6_SelectedBuilds ==
    /\ (JobBuilt /\ ~NothingSelected(request.osdObject)) => workload.kind = "job"
    /\ workload.kind \in {"job", "deployment"} => Len(workload.Volumes) >= 1

C6_Witness ==
    /\ JobBuilt
    /\ request.osdObject.selection.Directories = <<DataDir>>
    /\ Len(request.osdObject.devices) = 0
    /\ request.osdObject.pvc.ClaimName = ""
    /\ ~devMountNeeded(request.osdObject)
    /\ workload.kind = "job"
    /\ Len(workload.Volumes) >= 1

\* the three shapes of the daemon container's command
FollowedBy(args, w, v) ==
    \E i \in 1..(Len(args) - 1) : args[i] = <<w>> /\ args[i + 1] = <<v>>

IsWrapperForm(container, osd) ==
    /\ container.Command = <<"/rook/tini">>
    /\ HasWord(container.Args, "/rook/rook")
    /\ HasWord(container.Args, "filestore-device")
    /\ FollowedBy(container.Args, "--source-path", "/dev/disk/by-partuuid/" \o osd.DevicePartUUID)
    /\ FollowedBy(container.Args, "--mount-path", DataPath(osd))

IsSupervisorForm(container, osd) ==
    /\ container.Command = <<"/rook/tini">>
    /\ HasWord(container.Args, "/rook/rook")
    /\ FollowedBy(container.Args, "osd", "start")
    /\ FollowedBy(container.Args, "--setuser", "ceph")
    /\ FollowedBy(container.Args, "--setgroup", "ceph")
    /\ FollowedBy(container.Args, "--setuser-match-path", DataPath(osd))

IsDirectForm(container, osd) ==
    /\ container.Command = <<"ceph-osd">>
    /\ HasWord(container.Args, "--foreground")
    /\ FollowedBy(container.Args, "--id", ToString(osd.ID))
    /\ FollowedBy(container.Args, "--conf", osd.Config)
    /\ FollowedBy(container.Args, "--osd-data", DataPath(osd))
    /\ FollowedBy(container.Args, "--keyring", osd.KeyringPath)
    /\ FollowedBy(container.Args, "--cluster", osd.Cluster)
    /\ FollowedBy(container.Args, "--osd-uuid", osd.UUID)
    /\ ~HasWord(container.Args, "filestore-device")
    /\ ~HasWord(container.Args, "start")

CommandSelection(wrapped, container, osd) ==
    IF wrapped
    THEN /\ IsWrapperForm(container, osd)
         /\ HasFlag(container.Args, "--osd-journal=")
         /\ ~IsSupervisorForm(container, osd)
    ELSE IF osd.CephVolumeInitiated
    THEN IsSupervisorForm(container, osd) /\ ~IsWrapperForm(container, osd)
    ELSE IsDirectForm(container, osd)

\* C7 (as claimed): the daemon command is the bind-mount-then-exec wrapper,
\* with --osd-journal=<path>, when the worker is directory-based, filestore and
\* not started by ceph-volume; else the supervisor form when started by
\* ceph-volume; else the direct ceph-osd command.
C7_WrapperForDirectory ==
    (DeploymentBuilt /\ workload.kind = "deployment") =>
        CommandSelection(request.osd.IsDirectory /\ request.osd.IsFileStore
                            /\ ~request.osd.CephVolumeInitiated,
                         DaemonContainer(workload), request.osd)

\* C7 (amended): the daemon command is the bind-mount-then-exec wrapper, with
\* --osd-journal=<path>, when the worker is device-based (not IsDirectory),
\* filestore and not started by ceph-volume; else the supervisor form when
\* started by ceph-volume; else the direct ceph-osd command.
C7_WrapperForDevice ==
    (DeploymentBuilt /\ workload.kind = "deployment") =>
        CommandSelection(~request.osd.IsDirectory /\ request.osd.IsFileStore
                            /\ ~request.osd.CephVolumeInitiated,
                         DaemonContainer(workload), request.osd)

C7_Witness ==
    /\ DeploymentBuilt /\ workload.kind = "deployment"
    /\ ~request.osd.IsDirectory /\ request.osd.IsFileStore /\ ~request.osd.CephVolumeInitiated
    /\ IsWrapperForm(DaemonContainer(workload), request.osd)
    /\ HasFlag(DaemonContainer(workload).Args, "--osd-journal=")

\* C8: the daemon container's arguments contain an --osd-memory-target flag
\* exactly when the store is bluestore (not IsFileStore), the Ceph version is
\* below Nautilus and the memory limit is not zero, whatever the placement and
\* whoever started the worker.
C8_MemoryTargetIff ==
    (DeploymentBuilt /\ workload.kind = "deployment") =>
        (HasFlag(DaemonContainer(workload).Args, "--osd-memory-target=")
            <=> (/\ ~request.osd.IsFileStore
                 /\ cluster.CephVersion.Major < 14
                 /\ cluster.MemoryLimit # 0))

\* C9 (as claimed): the daemon container's arguments contain an --osd-journal
\* flag exactly when the store is filestore.
C9_JournalIffFileStore ==
    (DeploymentBuilt /\ workload.kind = "deployment") =>
        (HasFlag(DaemonContainer(workload).Args, "--osd-journal=") <=> request.osd.IsFileStore)

\* C9 (amended): the daemon container's arguments contain an --osd-journal
\* flag, carrying the worker's journal path, exactly when the store is
\* filestore and the worker was not started by ceph-volume; the flag never
\* appears for bluestore.
C9_JournalIffFileStoreDirect ==
    (DeploymentBuilt /\ workload.kind = "deployment") =>
        /\ HasFlag(DaemonContainer(workload).Args, "--osd-journal=")
              <=> (request.osd.IsFileStore /\ ~request.osd.CephVolumeInitiated)
        /\ \A i \in 1..Len(DaemonContainer(workload).Args) :
              DaemonContainer(workload).Args[i][1] = "--osd-journal="
                  => DaemonContainer(workload).Args[i] = <<"--osd-journal=", request.osd.Journal>>

C9_Witness ==
    /\ DeploymentBuilt /\ workload.kind = "deployment"
    /\ request.osd.IsFileStore /\ ~request.osd.CephVolumeInitiated /\ request.osd.IsDirectory
    /\ HasFlag(DaemonContainer(workload).Args, "--osd-journal=")

\* C10: the provision container is privileged exactly when explicit devices,
\* a device filter, use-all-devices or a metadata device is set, or
\* ROOK_HOSTPATH_REQUIRES_PRIVILEGED is "true", or a PVC claim name is bound.
C10_PrivilegedIff ==
    (JobBuilt /\ workload.kind = "job") =>
        LET o == request.osdObject IN
        /\ ProvisionContainer(workload).Name = "provision"
        /\ ProvisionContainer(workload).Privileged \in BOOLEAN
        /\ ProvisionContainer(workload).Privileged
              <=> (\/ Len(o.devices) > 0
                   \/ o.selection.DeviceFilter # ""
                   \/ o.selection.UseAllDevices
                   \/ o.metadataDevice # ""
                   \/ cluster.hostpathRequiresPrivileged = "true"
                   \/ o.pvc.ClaimName # "")

C10_Witness ==
    /\ JobBuilt /\ workload.kind = "job"
    /\ request.osdObject.pvc.ClaimName # ""
    /\ ~devMountNeeded(request.osdObject)
    /\ cluster.hostpathRequiresPrivileged = "false"
    /\ ProvisionContainer(workload).Privileged = TRUE

(***************************************************************************)
(* The device list of the provision container                              *)
(***************************************************************************)
\* the values of the environment entries of a container that carry a name
EnvValues(container, name) ==
    [i \in 1..Len(SelectSeq(container.Env, LAMBDA e : e.Name = name)) |->
        SelectSeq(container.Env, LAMBDA e : e.Name = name)[i].Value]

\* the entry of one device as the specification words it: the name, the
\* per-device OSD count of its config when the config sets one and 1
\* otherwise, and the metadata device when the config names one
ClaimedDeviceEntry(device) ==
    device.Name \o ":"
    \o (IF OSDsPerDeviceKey \in DOMAIN device.Config
        THEN device.Config[OSDsPerDeviceKey] ELSE "1")
    \o (IF MetadataDeviceKey \in DOMAIN device.Config
        THEN ":" \o device.Config[MetadataDeviceKey] ELSE "")

ClaimedDeviceList(devices) ==
    StringsJoin([i \in 1..Len(devices) |-> ClaimedDeviceEntry(devices[i])], ",")

\* C11: when makeJob is given explicit devices, the provision container has a
\* ROOK_DATA_DEVICES entry whose value joins, with commas, each device's name,
\* ':' and its configured per-device OSD count (1 when none is configured),
\* and ':' and its metadata device when one is configured; without a bound
\* PVC it is the only ROOK_DATA_DEVICES entry.
C11_DeviceListValue ==
    (JobBuilt /\ Len(request.osdObject.devices) > 0) =>
        LET values == EnvValues(ProvisionContainer(workload), "ROOK_DATA_DEVICES") IN
        /\ \E i \in 1..Len(values) : values[i] = ClaimedDeviceList(request.osdObject.devices)
        /\ request.osdObject.pvc.ClaimName = "" => Len(values) = 1

(***************************************************************************)
(* The default data directory in the directory list                        *)
(***************************************************************************)
HasDefaultDir(dirs) == \E i \in 1..Len(dirs) : dirs[i] = DataDir
WithoutDefaultDir(dirs) == SelectSeq(dirs, LAMBDA d : d # DataDir)

\* the descriptor with the default data directory taken out of its list
StripDefaultDir(o) ==
    [o EXCEPT !.selection.Directories = WithoutDefaultDir(o.selection.Directories)]

\* how many volumes of a workload are the host directory path
VolumesOfPath(w, path) ==
    Cardinality({i \in 1..Len(w.Volumes) : w.Volumes[i].Source = HostPath(path)})

\* how many mounts of a container are at path
MountsAtPath(container, path) ==
    Cardinality({i \in 1..Len(container.VolumeMounts) :
                    container.VolumeMounts[i].MountPath = path})

\* the default data directory, however often listed, adds no volume and no
\* mount: the pod has the volumes and the provision container the mounts of
\* the same descriptor without it, one volume and one mount are the default
\* data directory, and none carries the name made from its path
DefaultDirAddsNothing ==
    LET o == request.osdObject
        bare == makeJob(cluster, StripDefaultDir(o)) IN
    /\ workload.Volumes = bare.Volumes
    /\ ProvisionContainer(workload).VolumeMounts = ProvisionContainer(bare).VolumeMounts
    /\ VolumesOfPath(workload, DataDir) = 1
    /\ MountsAtPath(ProvisionContainer(workload), DataDir) = 1
    /\ PathToVolumeName(DataDir) \notin VolumeNames(workload)
    /\ \A i \in 1..Len(ProvisionContainer(workload).VolumeMounts) :
          ProvisionContainer(workload).VolumeMounts[i].Name # PathToVolumeName(DataDir)

\* ROOK_DATA_DIRECTORIES is there once and lists every directory, the default
\* data directory included
DirectoriesListed ==
    EnvValues(ProvisionContainer(workload), "ROOK_DATA_DIRECTORIES")
        = <<StringsJoin(request.osdObject.selection.Directories, ",")>>

\* C12 (as claimed): when the directory list of makeJob's descriptor holds the
\* default data directory, that path adds no volume and no mount, the default
\* data directory is one volume and one mount, and ROOK_DATA_DIRECTORIES
\* still lists the path.
C12_DefaultDirListed ==
    (JobBuilt /\ HasDefaultDir(request.osdObject.selection.Directories)) =>
        /\ DefaultDirAddsNothing
        /\ DirectoriesListed

\* C12 (amended): the same, with ROOK_DATA_DIRECTORIES listing the path when
\* the device filter does not mark the node as being removed, and absent
\* when it does.
C12_DefaultDirListedUnlessRemoving ==
    (JobBuilt /\ HasDefaultDir(request.osdObject.selection.Directories)) =>
        /\ DefaultDirAddsNothing
        /\ IF IsRemovingNode(request.osdObject.selection.DeviceFilter)
           THEN EnvValues(ProvisionContainer(workload), "ROOK_DATA_DIRECTORIES") = <<>>
           ELSE DirectoriesListed

\* the default data directory listed twice, and listed in the environment
C12_Witness ==
    /\ JobBuilt
    /\ request.osdObject.selection.Directories = <<DataDir, DataDir>>
    /\ EnvValues(ProvisionContainer(workload), "ROOK_DATA_DIRECTORIES")
          = <<DataDir \o "," \o DataDir>>
    /\ VolumesOfPath(workload, DataDir) = 1

(***************************************************************************)
(* prepareStorageClassDeviceSets: what a finished pass returns             *)
(***************************************************************************)
\* the pass has run the loop to its end and returned
PrepareReturned(p) == ~loop[p].active /\ loop[p].i > Len(DesiredStorage)

\* the (device set, set index) pairs of the sets from position s on that
\* pass the memory check, in iteration order
RECURSIVE AttemptsFrom(_)
AttemptsFrom(s) ==
    IF s > Len(DesiredStorage) THEN <<>>
    ELSE (IF DesiredStorage[s].MemoryOK
          THEN [k \in 1..DesiredStorage[s].Count |-> [set |-> s, setIndex |-> k - 1]]
          ELSE <<>>)
         \o AttemptsFrom(s + 1)

FailureMsg == "OSD creation failed for count"

\* the errors report the allocation for the pair as failed
FailedAt(l, a) ==
    \E j \in 1..Len(l.errors) :
        l.errors[j] = [msg |-> FailureMsg, set |-> DesiredStorage[a.set].Name,
                       setIndex |-> a.setIndex]

\* the name is that of a PVC of the store the call for the pair can have
\* returned: one its selector matches, or one created from its claim
IsPVCOf(name, a) ==
    \E x \in store :
        /\ x.Name = name
        /\ \/ Matches(x, LabelSelector(CallId(a)))
           \/ x.GenerateName = NewPVC(a).GenerateName

\* C13: after a pass of prepareStorageClassDeviceSets, every (device set, set
\* index) of every device set that passes the memory check has been attempted:
\* each either is reported as failed, with two errors added, or has its volume
\* source; the returned list holds exactly the volume sources of the pairs not
\* reported as failed, in iteration order, each carrying the name of the PVC
\* of its pair; and each set failing the memory check adds one error.
C13_EveryPairAttempted ==
    \A p \in Passes : PrepareReturned(p) =>
        LET l == loop[p]
            attempts == AttemptsFrom(1)
            succeeded == SelectSeq(attempts, LAMBDA a : ~FailedAt(l, a))
            failed == SelectSeq(attempts, LAMBDA a : FailedAt(l, a))
            refused == {s \in 1..Len(DesiredStorage) : ~DesiredStorage[s].MemoryOK}
        IN  /\ Len(l.volumeSources) = Len(succeeded)
            /\ \A k \in 1..Len(succeeded) :
                  /\ l.volumeSources[k].Name = DesiredStorage[succeeded[k].set].Name
                  /\ IsPVCOf(l.volumeSources[k].ClaimName, succeeded[k])
            /\ Len(l.errors) = Cardinality(refused) + 2 * Len(failed)
            /\ \A j \in 1..Len(l.errors) :
                  l.errors[j].msg = FailureMsg =>
                      /\ j > 1
                      /\ l.errors[j - 1].msg \in
                            {"No PVC available", "failed to create pvc: list",
                             "failed to create pvc: create", "more than one PVCs exists"}
                      /\ l.errors[j - 1].set = l.errors[j].set
                      /\ l.errors[j - 1].setIndex = l.errors[j].setIndex

\* a pass that returned after its first allocation failed and a later one
\* succeeded
C13_Witness ==
    /\ PrepareReturned(SeqPass)
    /\ Len(loop[SeqPass].errors) >= 2
    /\ loop[SeqPass].errors[2] = [msg |-> FailureMsg, set |-> "a", setIndex |-> 0]
    /\ Len(loop[SeqPass].volumeSources) >= 1

(***************************************************************************)
(* The device-selection rules of the provision container                   *)
(***************************************************************************)
\* the ROOK_DATA_DEVICES values that carry a device list: all but the one
\* that names the bridge of a bound PVC
DeviceListValues(o, container) ==
    SelectSeq(EnvValues(container, "ROOK_DATA_DEVICES"),
              LAMBDA v : v # "/mnt/" \o o.pvc.ClaimName)

MountsNamed(container, name) ==
    Cardinality({i \in 1..Len(container.VolumeMounts) :
                    container.VolumeMounts[i].Name = name})

\* C14: the provision container of makeJob carries a device list when
\* explicit devices are present, else ROOK_DATA_DEVICE_FILTER with the filter
\* when one is set, else ROOK_DATA_DEVICE_FILTER=all when use-all-devices is
\* set, and never more than one of the three; ROOK_METADATA_DEVICE is there
\* exactly when a metadata device is set; the 'devices' and 'udev' mounts are
\* there exactly when any of the four is set.
C14_FirstMatchWins ==
    JobBuilt =>
        LET o == request.osdObject
            container == ProvisionContainer(workload)
            lists == DeviceListValues(o, container)
            filters == EnvValues(container, "ROOK_DATA_DEVICE_FILTER")
            any == \/ Len(o.devices) > 0
                   \/ o.selection.DeviceFilter # ""
                   \/ o.selection.UseAllDevices
                   \/ o.metadataDevice # ""
        IN  /\ IF Len(o.devices) > 0
               THEN Len(lists) = 1 /\ filters = <<>>
               ELSE IF o.selection.DeviceFilter # ""
               THEN lists = <<>> /\ filters = <<o.selection.DeviceFilter>>
               ELSE IF o.selection.UseAllDevices
               THEN lists = <<>> /\ filters = <<"all">>
               ELSE lists = <<>> /\ filters = <<>>
            /\ Len(lists) + Len(filters) <= 1
            /\ EnvValues(container, "ROOK_METADATA_DEVICE")
                  = IF o.metadataDevice # "" THEN <<o.metadataDevice>> ELSE <<>>
            /\ MountsNamed(container, "devices") = IF any THEN 1 ELSE 0
            /\ MountsNamed(container, "udev") = IF any THEN 1 ELSE 0

\* devices, a filter and use-all-devices together: the device list alone
C14_Witness ==
    /\ JobBuilt
    /\ Len(request.osdObject.devices) > 0
    /\ request.osdObject.selection.DeviceFilter = "^sd."
    /\ request.osdObject.selection.UseAllDevices
    /\ EnvValues(ProvisionContainer(workload), "ROOK_DATA_DEVICE_FILTER") = <<>>
    /\ Len(EnvValues(ProvisionContainer(workload), "ROOK_DATA_DEVICES")) = 1

(***************************************************************************)
(* The error outcomes of createStorageClassDeviceSetPVC                    *)
(***************************************************************************)
\* what one step may do to the call of pass p
CallStep(p) ==
    /\ \* entry: without a claim template the call returns at once
       (pc[p] \in {"idle", "loop"} /\ pc'[p] \notin {"idle", "loop"}) =>
          IF Len(DesiredStorage[call'[p].set].VolumeClaimTemplates) = 0
          THEN pc'[p] = "ret" /\ ret'[p] = Err("No PVC available") /\ store' = store
          ELSE pc'[p] = "list" /\ store' = store
    /\ \* the list request: made once, a failure returns without a create
       (pc[p] = "list" /\ pc'[p] # "list") =>
          /\ pc'[p] \in {"create", "ret"}
          /\ store' = store
          /\ ret'[p].err = "failed to create pvc: list" => pc'[p] = "ret"
          /\ pc'[p] = "create" => ret'[p] = NoRet /\ presentPVCs'[p] = {}
          /\ pc'[p] = "ret" => ret'[p].done /\ ~ret'[p].created
    /\ \* the create request: made once, a failure returns no PVC
       (pc[p] = "create" /\ pc'[p] # "create") =>
          /\ pc'[p] = "ret"
          /\ IF ret'[p].ok
             THEN /\ ret'[p].created
                  /\ \E x \in store' \ store : x.Name = ret'[p].pvc /\ store' = store \cup {x}
             ELSE /\ ret'[p] = Err("failed to create pvc: create")
                  /\ store' = store
    /\ \* the return
       (pc[p] = "ret" /\ pc'[p] # "ret") => pc'[p] \in {"idle", "loop"} /\ store' = store
    /\ \* an error carries no PVC
       (ret'[p].done /\ ~ret'[p].ok) => ret'[p].pvc = NoName /\ ret'[p].err # ""

\* C15: a call without a claim template returns an error without a list or a
\* create request; a failed list request returns an error and no create
\* request follows; a failed create request returns an error and no PVC; a
\* call makes at most one list and at most one create request; and only a
\* create request that succeeded changes the store.
C15_ErrorsLeaveStore ==
    [][ /\ \A p \in Passes : CallStep(p)
        /\ store' # store =>
              \E p \in Passes : pc[p] = "create" /\ pc'[p] = "ret" /\ ret'[p].ok
      ]_vars

\* one call's create request has failed, another's list request has failed,
\* and the store is still empty
C15_Witness ==
    /\ store = {}
    /\ \E p, q \in Passes :
          /\ pc[p] = "ret" /\ ret[p].err = "failed to create pvc: create"
          /\ pc[q] = "ret" /\ ret[q].err = "failed to create pvc: list"

(***************************************************************************)
(* The identity label of a created PVC                                     *)
(***************************************************************************)
\* C16: the PVC a call of createStorageClassDeviceSetPVC has created carries
\* ceph.rook.io/StorageClassDeviceSetPVCId = <device-set name>-<set index>-0,
\* so the label selector the call listed with matches it, whatever labels the
\* claim template has.
C16_CreatedMatchesSelector ==
    \A p \in Passes :
        (pc[p] = "ret" /\ ret[p].created) =>
            \E x \in store :
                /\ x.Name = ret[p].pvc
                /\ x.Labels[PVCIdKey] = CallId(call[p])
                /\ Matches(x, LabelSelector(CallId(call[p])))

(***************************************************************************)
(* Volume references of a workload                                         *)
(***************************************************************************)
AllContainers(w) == w.Containers \o w.InitContainers

\* the volume names the containers of a workload refer to, as mounts or as
\* devices
ReferencedNames(w) ==
    UNION {
        {AllContainers(w)[c].VolumeMounts[i].Name :
            i \in 1..Len(AllContainers(w)[c].VolumeMounts)}
        \cup
        {AllContainers(w)[c].VolumeDevices[i].Name :
            i \in 1..Len(AllContainers(w)[c].VolumeDevices)}
      : c \in 1..Len(AllContainers(w)) }

\* the volumes every pod gets whatever is selected
AlwaysVolumes == {"rook-data", "rook-config-override", "rook-ceph-log", rookBinariesVolumeName}

\* every mount and every device names a volume of the pod, and every volume
\* added for a selection is one that something mounts
ReferencesResolve(w) ==
    /\ ReferencedNames(w) \subseteq VolumeNames(w)
    /\ VolumeNames(w) \ AlwaysVolumes \subseteq ReferencedNames(w)

====
